---- MODULE Spec2Model ----
(***************************************************************************)
(* Word Search Generator: the placement engine of                          *)
(* src/src/wordsearchgen/algorithm.py (classes Position and Generator).    *)
(*                                                                         *)
(* One Generator object is modelled.  A word is a sequence of letters, a   *)
(* word list is a sequence of words.  Python indices are 0-based and are   *)
(* kept 0-based in `index`, x and y; TLA+ sequences are 1-based, so        *)
(* self.words[self.index] is words[index + 1].                             *)
(*                                                                         *)
(* gen_word_search runs on a worker thread while the caller may set        *)
(* Generator.halted at any moment.  Its control points are                 *)
(*   "idle"    no call in progress                                         *)
(*   "start"   lines 342-364 done, before `self.halted = False` (367)      *)
(*   "loop"    at the while condition of line 368                          *)
(*   "exited"  the while condition was false, before `if self.halted` (405)*)
(*   "finish"  line 405 read halted = False, before line 409               *)
(*                                                                         *)
(* random.shuffle is a nondeterministic permutation.  The cached candidate *)
(* list keeps the element that is tried (positions[0]) first; the order of *)
(* the untried rest is resolved when pop(0) brings the next element to the *)
(* front, which yields exactly the sequences of tried positions that an    *)
(* up-front permutation yields.  list(set(...)) is a nondeterministic      *)
(* order of the distinct elements (string hashing is salted per process).  *)
(*                                                                         *)
(* Two callers build a Generator: __main__.main in CLI mode, without a     *)
(* progress callback and on the main thread only, and the GUI, with its    *)
(* progress_update as callback and with a second thread that can cancel.   *)
(* The texts of a returned pair are kept as sequences of pieces (cell      *)
(* strings and separators).                                                *)
(*                                                                         *)
(* Spec and FairSpec are runs of gen_word_search.  UnitSpec calls a method *)
(* on its own, on arguments that no run of the engine passes to it         *)
(* (unit_call holds the call, unit_value the value it returned).           *)
(* LegacySpec is the static gen_word_search of src/algorithm.py, whose     *)
(* locals are kept in the variables of the same names.  GuiSpec is a Tk or *)
(* Qt window with its Generator: the clicks on the generate/cancel button, *)
(* the generation thread, and the Qt slot that reads Generator.index.      *)
(***************************************************************************)
EXTENDS Integers, Sequences, FiniteSets, TLC

VARIABLES
    words,                \* self.words (NoWords models None)
    size_fac,             \* self.size_fac
    dim,                  \* self.dim
    directions,           \* self.directions
    intersect_bias,       \* self.intersect_bias
    table,                \* self.table
    all_workable_posits,  \* self.all_workable_posits: word -> list of Position
    all_positions,        \* self.all_positions
    table_history,        \* self.table_history
    index,                \* self.index
    halted,               \* self.halted
    pc,                   \* control point of gen_word_search
    result,               \* how the last call ended
    arg_words,            \* the `words` argument, until the loop starts
    cancel_at,            \* control point at which the caller set halted, if
                          \* line 367 has not overwritten that since
    progress_callback,    \* the progress_step argument of __init__ is callable
    progress_calls,       \* calls of the progress callback in this run
    progress_seen,        \* Generator.index as the last callback call read it
    puzz,                 \* the puzzle text of the returned pair
    puzzkey,              \* the answer-key text of the returned pair
    cli_words,            \* the words main was given, until the loop starts
    exit_status,          \* the value main has returned
    unit_call,            \* a method called on its own: its name and arguments
    unit_value,           \* the value that call returned
    toolkit,              \* the window that owns the Generator: "tk", "qt",
                          \* or "none" when no window does
    gui_puzzle,           \* GUICommon.puzzle (NoText models None)
    gui_answer_key,       \* GUICommon.answer_key (NoText models None)
    gen_thread,           \* GUICommon.gen_thread: "none", "alive", or how
                          \* generate_puzzle ended in it
    queued                \* invocations of the Qt slot _progress_update that
                          \* wait for the GUI thread

vars == <<words, size_fac, dim, directions, intersect_bias, table,
          all_workable_posits, all_positions, table_history, index, halted,
          pc, result, arg_words, cancel_at, progress_callback,
          progress_calls, progress_seen, puzz, puzzkey, cli_words,
          exit_status, unit_call, unit_value, toolkit, gui_puzzle,
          gui_answer_key, gen_thread, queued>>

\* what the caller of gen_word_search sees and keeps
progress_vars == <<progress_calls, progress_seen, queued>>

returned_vars == <<puzz, puzzkey>>

cli_vars == <<cli_words, exit_status>>

unit_vars == <<unit_call, unit_value>>

gui_vars == <<toolkit, gui_puzzle, gui_answer_key, gen_thread>>

-----------------------------------------------------------------------------
(* Bounds of the model *)

MaxWords == 3       \* longest word list passed to gen_word_search
MaxSizeFac == 1     \* largest size_fac passed to gen_word_search
MaxDim == 3         \* the grid stops growing at this dimension
MaxCaseWords == 2   \* longest list of words that differ in letter case only
MaxCalls == 10      \* the progress callback is counted up to this many calls
MaxQueued == 2      \* invocations of the Qt slot that can wait at a time

-----------------------------------------------------------------------------
(* Constants of the program *)

DIRECTIONS ==
    << <<1, -1>>, <<1, 0>>, <<1, 1>>, <<0, 1>>,
       <<-1, 1>>, <<-1, 0>>, <<-1, -1>>, <<0, -1>> >>

EASY_DIRECTIONS == SubSeq(DIRECTIONS, 1, 4)

SIZE_FAC_DEFAULT == 4

ALL_CHARS ==
    << "A", "B", "C", "D", "E", "F", "G", "H", "I", "J", "K", "L", "M",
       "N", "O", "P", "Q", "R", "S", "T", "U", "V", "W", "X", "Y", "Z" >>

\* the lower-case letters, in the order of their upper-case forms in ALL_CHARS
LOWER_CHARS ==
    << "a", "b", "c", "d", "e", "f", "g", "h", "i", "j", "k", "l", "m",
       "n", "o", "p", "q", "r", "s", "t", "u", "v", "w", "x", "y", "z" >>

\* the string that fill_with_dots puts into an empty cell
PLACEHOLDER == "Â·"

\* no callback call has read Generator.index yet
NoIndex == -1

\* no text was returned
NoText == <<>>

\* self.words = None
NoWords == << <<>> >>

\* An optional argument is the empty set (None) or the singleton of its value
NoArg == {}

Some(v) == {v}

ValueOf(arg) == CHOOSE v \in arg : TRUE

-----------------------------------------------------------------------------
(* Inputs *)

WordUniverse == { <<"A">>, <<"B">>, <<"A", "B">> }

WordLists == UNION { [1..n -> WordUniverse] : n \in 0..MaxWords }

\* words that differ in letter case only
CaseWordUniverse == { <<"a">>, <<"A">> }

CaseWordLists == UNION { [1..n -> CaseWordUniverse] : n \in 1..MaxCaseWords }

WordArgs == WordLists \cup CaseWordLists \cup {NoWords}

DirectionArgs == { Some(<<DIRECTIONS[2]>>),
                   Some(<<DIRECTIONS[2], DIRECTIONS[4]>>),
                   Some(<<DIRECTIONS[6], DIRECTIONS[3]>>) }

SizeFacArgs == { Some(n) : n \in -1..MaxSizeFac }

BiasArgs == { Some(b) : b \in {-1, 0, 1} } \cup {NoArg}

\* words on the command line or on standard input; "-" alone selects
\* standard input and is no character of ALL_CHARS
CliWordUniverse == { <<"a">>, <<"A", "b">>, <<"-">> }

CliWordLists == UNION { [1..n -> CliWordUniverse] : n \in 0..MaxWords }

\* --size-factor: the default or a given integer
CliSizeFactors == { SIZE_FAC_DEFAULT } \cup (-1..MaxSizeFac)

\* --intersect-bias: absent (None) or a given integer
CliBiasArgs == { NoArg, Some(1) }

-----------------------------------------------------------------------------
(* Helpers on sequences *)

Range(s) == { s[i] : i \in DOMAIN s }

Max(a, b) == IF a >= b THEN a ELSE b

\* str.upper and str.lower on one character
str_upper(ch) ==
    IF \E i \in DOMAIN LOWER_CHARS : LOWER_CHARS[i] = ch
    THEN ALL_CHARS[CHOOSE i \in DOMAIN LOWER_CHARS : LOWER_CHARS[i] = ch]
    ELSE ch

str_lower(ch) ==
    IF \E i \in DOMAIN ALL_CHARS : ALL_CHARS[i] = ch
    THEN LOWER_CHARS[CHOOSE i \in DOMAIN ALL_CHARS : ALL_CHARS[i] = ch]
    ELSE ch

\* a conversion that leaves the word as it was typed
upper_as_typed(word) == word

\* word.upper()
upper(word) == [i \in DOMAIN word |-> str_upper(word[i])]

\* sep.join(items) on sequences of text pieces
\* (its \in {items} evaluates the items once)
RECURSIVE join_items(_, _)
join_items(sep, items) ==
    IF items = <<>> THEN <<>>
    ELSE IF Len(items) = 1 THEN Head(items)
    ELSE Head(items) \o <<sep>> \o join_items(sep, Tail(items))

join(sep, items) ==
    CHOOSE text \in { join_items(sep, its) : its \in {items} } : TRUE

RemoveAt(s, i) == SubSeq(s, 1, i - 1) \o SubSeq(s, i + 1, Len(s))

RECURSIVE SumLen(_)
SumLen(ws) == IF ws = <<>> THEN 0 ELSE Len(Head(ws)) + SumLen(Tail(ws))

LongestLen(ws) == CHOOSE n \in { Len(ws[i]) : i \in DOMAIN ws } :
                      \A i \in DOMAIN ws : Len(ws[i]) <= n

\* int(n ** 0.5) for a non-negative integer n (exact for the small n here)
IntSqrt(n) == CHOOSE r \in 0..n : r * r <= n /\ (r + 1) * (r + 1) > n

-----------------------------------------------------------------------------
(* class Position *)

Position(x, y, direction) == [x |-> x, y |-> y, direction |-> direction]

\* a bounds check that rejects a word ending in the last row or column
bounds_check_strict(pos, length, puzz_dim) ==
    LET xend == pos.x + pos.direction[1] * (length - 1)
        yend == pos.y + pos.direction[2] * (length - 1)
    IN  (0 <= xend /\ xend < puzz_dim - 1) /\ (0 <= yend /\ yend < puzz_dim - 1)

bounds_check(pos, length, puzz_dim) ==
    LET xend == pos.x + pos.direction[1] * (length - 1)
        yend == pos.y + pos.direction[2] * (length - 1)
    IN  (0 <= xend /\ xend < puzz_dim) /\ (0 <= yend /\ yend < puzz_dim)

\* the cells of the word counted from its end cell
indices_reversed(pos, length) ==
    [i \in 1..length |-> << pos.x + pos.direction[1] * (length - i),
                            pos.y + pos.direction[2] * (length - i) >>]

\* the i-th (1-based) cell of Position.indices(length)
indices(pos, length) ==
    [i \in 1..length |-> << pos.x + pos.direction[1] * (i - 1),
                            pos.y + pos.direction[2] * (i - 1) >>]

-----------------------------------------------------------------------------
(* class Generator: static methods *)

\* get_puzzle_dim without the longest-word floor
get_puzzle_dim_no_floor(ws, sf) == IntSqrt(SumLen(ws) * sf)

get_puzzle_dim(ws, sf) == Max(IntSqrt(SumLen(ws) * sf), LongestLen(ws))

Cells(d) == (0..(d - 1)) \X (0..(d - 1))

create_empty_table(d) == [c \in Cells(d) |-> ""]

\* puzzle.shape[0]
shape(puzzle) == CHOOSE n \in 0..Cardinality(DOMAIN puzzle) :
                     n * n = Cardinality(DOMAIN puzzle)

\* candidate positions that start in the first row only
all_posits_first_row(d, dirs) ==
    LET nd == Len(dirs) IN
    [k \in 1..(d * d * nd) |->
        Position(((k - 1) \div (d * nd)), 0, dirs[((k - 1) % nd) + 1])]

all_posits(d, dirs) ==
    LET nd == Len(dirs) IN
    [k \in 1..(d * d * nd) |->
        Position(((k - 1) \div (d * nd)),
                 (((k - 1) \div nd) % d),
                 dirs[((k - 1) % nd) + 1])]

\* can_place that accepts every position inside the puzzle, whatever it holds
can_place_any(word, pos, puzzle) ==
    IF ~bounds_check(pos, Len(word), shape(puzzle))
    THEN <<FALSE, 0>>
    ELSE <<TRUE, 0>>

can_place(word, pos, puzzle) ==
    LET wordlen == Len(word)
        d == shape(puzzle)
    IN  IF ~bounds_check(pos, wordlen, d)
        THEN <<FALSE, 0>>
        ELSE LET idx == indices(pos, wordlen)
                 intersecion == { i \in 1..wordlen : puzzle[idx[i]] = word[i] }
                 blankspots == { i \in 1..wordlen : puzzle[idx[i]] = "" }
             IN  << (intersecion \cup blankspots) = 1..wordlen,
                    Cardinality(intersecion) >>

-----------------------------------------------------------------------------
(* class Generator: the candidate cache *)

EmptyDict == [w \in {} |-> <<>>]

DictSet(dict, key, value) ==
    [k \in (DOMAIN dict) \cup {key} |-> IF k = key THEN value ELSE dict[k]]

DictDel(dict, key) == [k \in (DOMAIN dict) \ {key} |-> dict[k]]

\* the list comprehension of lines 288-291
\* a candidate list that keeps every position that stays within the grid
workable_in_bounds(word, posits, puzzle) ==
    SelectSeq(posits, LAMBDA pos : bounds_check(pos, Len(word), shape(puzzle)))

workable(word, posits, puzzle) ==
    SelectSeq(posits, LAMBDA pos : can_place(word, pos, puzzle)[1])

\* a front that the shuffle alone decides, whatever the bias
first_choices_any(list, word, puzzle, bias) == DOMAIN list

\* The elements of `list` that random.shuffle followed by the sort (and the
\* reverse) of lines 292-301 can leave at the front
first_choices(list, word, puzzle, bias) ==
    LET count(i) == can_place(word, list[i], puzzle)[2]
        counts == { count(i) : i \in DOMAIN list }
        most == CHOOSE c \in counts : \A o \in counts : o <= c
        least == CHOOSE c \in counts : \A o \in counts : c <= o
    IN  IF bias = 0 THEN DOMAIN list
        ELSE UNION { { i \in DOMAIN list : count(i) = front } :
                         front \in { IF bias > 0 THEN most ELSE least } }

\* shuffle, sort, reverse: the lists that differ in their first element
\* (l \in {list} evaluates the list once)
shuffled(list, word, puzzle, bias) ==
    UNION { IF l = <<>> THEN { <<>> }
            ELSE { <<l[i]>> \o RemoveAt(l, i) :
                       i \in first_choices(l, word, puzzle, bias) } :
            l \in {list} }

\* property cur_word
cur_word(ws, idx) == ws[idx + 1]

\* property cur_workable_posits: the values the getter can return for `word`
cur_workable_posits(word, dict, posits, puzzle, bias) ==
    IF word \in DOMAIN dict
    THEN { dict[word] }
    ELSE shuffled(workable(word, posits, puzzle), word, puzzle, bias)

\* list(set(ws)): the distinct elements in some order
list_of_set(ws) ==
    LET S == Range(ws) IN
    { s \in [1..Cardinality(S) -> S] : Range(s) = S }

-----------------------------------------------------------------------------
(* Initial state: Generator.__init__ *)

\* Generator.__init__
Generator_init ==
    /\ words = NoWords
    /\ size_fac = SIZE_FAC_DEFAULT
    /\ dim = 1
    /\ directions = DIRECTIONS
    /\ intersect_bias = 0
    /\ table = create_empty_table(1)
    /\ all_workable_posits = EmptyDict
    /\ all_positions = all_posits(1, DIRECTIONS)
    /\ table_history = <<>>
    /\ index = 0
    /\ halted = TRUE
    /\ pc = "idle"
    /\ result = "norun"
    /\ arg_words = NoWords
    /\ cancel_at = "none"
    /\ progress_callback \in BOOLEAN
    /\ progress_calls = 0
    /\ progress_seen = NoIndex
    /\ puzz = NoText
    /\ puzzkey = NoText
    /\ cli_words = NoWords
    /\ exit_status = NoArg

\* GUICommon.__init__ of a window of `kit`
GUICommon_init(kit) ==
    /\ toolkit = kit
    /\ gui_puzzle = NoText
    /\ gui_answer_key = NoText
    /\ gen_thread = "none"
    /\ queued = 0

\* the program: a Generator that no window owns, and no method called on its
\* own
Init ==
    /\ Generator_init
    /\ GUICommon_init("none")
    /\ unit_call = NoArg
    /\ unit_value = NoArg

-----------------------------------------------------------------------------
(* gen_word_search, lines 342-364: arguments, sizing, reset *)

\* a reset that keeps the candidate cache
reset_keep_cache(d, dirs) ==
    /\ table' = create_empty_table(d)
    /\ all_workable_posits' = all_workable_posits
    /\ all_positions' = all_posits(d, dirs)
    /\ table_history' = <<>>
    /\ index' = 0

\* a reset that keeps the letters of a table of the same size
reset_keep_table(d, dirs) ==
    /\ table' = IF DOMAIN table = Cells(d) THEN table
                                           ELSE create_empty_table(d)
    /\ all_workable_posits' = EmptyDict
    /\ all_positions' = all_posits(d, dirs)
    /\ table_history' = <<>>
    /\ index' = 0

\* reset_generation_data with self.dim = d and self.directions = dirs
reset_generation_data(d, dirs) ==
    /\ table' = create_empty_table(d)
    /\ all_workable_posits' = EmptyDict
    /\ all_positions' = all_posits(d, dirs)
    /\ table_history' = <<>>
    /\ index' = 0

\* GUICommon.generate_puzzle, line 218, in the generation thread of a window:
\* the value gen_word_search returned is unpacked into the pair; None cannot
\* be unpacked, and an exception of gen_word_search passes through.  (Line
\* 219 stores last_used_words, which nothing reads.)
generate_puzzle(returned) ==
    /\ UNCHANGED toolkit
    /\ IF toolkit = "none"
       THEN UNCHANGED <<gui_puzzle, gui_answer_key, gen_thread>>
       ELSE IF returned = "pair"
       THEN /\ gui_puzzle' = puzz'
            /\ gui_answer_key' = puzzkey'
            /\ gen_thread' = "finished"
       ELSE /\ gen_thread' = IF returned = "None" THEN "TypeError" ELSE "raised"
            /\ UNCHANGED <<gui_puzzle, gui_answer_key>>

\* the call ends with an exception; the attributes assigned so far stay
raise(self, ws, sf) ==
    /\ words' = ws
    /\ size_fac' = sf
    /\ directions' = self.directions
    /\ intersect_bias' = self.intersect_bias
    /\ result' = "raised"
    /\ generate_puzzle("raised")
    /\ UNCHANGED <<dim, table, all_workable_posits, all_positions,
                   table_history, index, halted, pc, progress_vars,
                   returned_vars>>

\* gen_word_search on an object whose attributes words, directions, size_fac
\* and intersect_bias hold the values of `self`
gen_word_search_on(self, w_arg, d_arg, sf_arg, b_arg) ==
    /\ arg_words' = w_arg
    /\ cancel_at' = "none"
    /\ UNCHANGED <<progress_callback, unit_vars>>
    /\ LET stored == IF w_arg # NoWords /\ w_arg # <<>> THEN w_arg
                                                        ELSE self.words IN
       IF stored = NoWords
       THEN raise(self, stored, self.size_fac)     \* set(None): TypeError
       ELSE \E ws \in list_of_set(stored) :
            IF ws = <<>>
            THEN raise(self, ws, self.size_fac)    \* assert self.words
            ELSE LET sf == IF sf_arg # NoArg THEN ValueOf(sf_arg)
                                            ELSE self.size_fac
                     dirs == IF d_arg # NoArg THEN ValueOf(d_arg)
                                             ELSE self.directions
                     bias == IF b_arg # NoArg THEN ValueOf(b_arg)
                                             ELSE self.intersect_bias
                 IN  IF sf < 0
                     THEN raise(self, ws, sf)      \* int(complex): TypeError
                     ELSE /\ words' = ws
                          /\ size_fac' = sf
                          /\ dim' = get_puzzle_dim(ws, sf)
                          /\ directions' = dirs
                          /\ intersect_bias' = bias
                          /\ reset_generation_data(get_puzzle_dim(ws, sf), dirs)
                          /\ pc' = "start"
                          /\ result' = "running"
                          /\ progress_calls' = 0
                          /\ progress_seen' = NoIndex
                          /\ puzz' = NoText
                          /\ puzzkey' = NoText
                          \* a window runs the call in a new thread
                          /\ gen_thread' = IF toolkit = "none" THEN gen_thread
                                                               ELSE "alive"
                          /\ UNCHANGED <<halted, queued, toolkit, gui_puzzle,
                                         gui_answer_key>>

\* gen_word_search on the Generator as it is
gen_word_search(w_arg, d_arg, sf_arg, b_arg) ==
    gen_word_search_on([words |-> words, directions |-> directions,
                        size_fac |-> size_fac,
                        intersect_bias |-> intersect_bias],
                       w_arg, d_arg, sf_arg, b_arg)

\* line 367
begin_loop ==
    /\ pc = "start"
    /\ halted' = FALSE
    /\ pc' = "loop"
    /\ arg_words' = NoWords
    /\ cancel_at' = "none"
    /\ cli_words' = NoWords
    /\ UNCHANGED <<words, size_fac, dim, directions, intersect_bias, table,
                   all_workable_posits, all_positions, table_history, index,
                   result, progress_callback, progress_vars, returned_vars,
                   exit_status, unit_vars, gui_vars>>

-----------------------------------------------------------------------------
(* gen_word_search, lines 368-402: one iteration of the placement loop *)

\* a report that is made only when a word was placed
progress_step_on_place ==
    IF progress_callback /\ index' > index
    THEN /\ progress_calls' = progress_calls + 1
         /\ progress_seen' = index'
         /\ UNCHANGED queued
    ELSE UNCHANGED progress_vars

\* line 402: progress_step calls the callback if there is one; the callback
\* reads Generator.index (tk_mainwindow.py line 225), except the one of a Qt
\* window, which queues the slot that will read it (qt_mainwindow.py line 145)
progress_step ==
    IF progress_callback
    THEN /\ progress_calls' = progress_calls + 1
         /\ IF toolkit = "qt"
            THEN queued' = queued + 1 /\ UNCHANGED progress_seen
            ELSE progress_seen' = index' /\ UNCHANGED queued
    ELSE UNCHANGED progress_vars

\* a while condition that does not look at the cancel flag
loop_condition_no_halt == index < Len(words)

\* the while condition of line 368
loop_condition == index < Len(words) /\ ~halted

\* a reset that keeps the dimension
grow_same_dim ==
    /\ dim + 1 <= MaxDim
    /\ dim' = dim
    /\ reset_generation_data(dim, directions)

\* a growth whose reset leaves the cursor where the backtrack put it
grow_keep_cursor ==
    /\ dim + 1 <= MaxDim
    /\ dim' = dim + 1
    /\ table' = create_empty_table(dim + 1)
    /\ all_workable_posits' = EmptyDict
    /\ all_positions' = all_posits(dim + 1, directions)
    /\ table_history' = <<>>
    /\ index' = index - 1

\* lines 380-382: the puzzle is too small, reset to a larger one
grow ==
    /\ dim + 1 <= MaxDim
    /\ dim' = dim + 1
    /\ reset_generation_data(dim + 1, directions)

\* a backtrack that keeps the tried position in the list of the previous word
undo_previous_keep_tried(dict, idx) ==
    LET restored == table_history[idx + 1]
    IN  /\ table' = restored
        /\ table_history' = RemoveAt(table_history, idx + 1)
        /\ index' = idx
        /\ all_workable_posits' = dict
        /\ UNCHANGED <<dim, all_positions>>

\* lines 386-389: back to the table before words[idx] was placed, and drop
\* the position that was tried for it
undo_previous(dict, idx) ==
    LET prev == cur_word(words, idx)
        restored == table_history[idx + 1]
    IN  /\ table' = restored
        /\ table_history' = RemoveAt(table_history, idx + 1)
        /\ index' = idx
        /\ \E got \in cur_workable_posits(prev, dict, all_positions, restored,
                                          intersect_bias) :
               /\ got # <<>>
               /\ \E rest \in shuffled(Tail(got), prev, restored, intersect_bias) :
                      all_workable_posits' = DictSet(dict, prev, rest)
        /\ UNCHANGED <<dim, all_positions>>

\* a backtrack that leaves the emptied list of the current word in the cache
backtrack_keep_entry(word, dict) ==
    IF index - 1 < 0
    THEN grow
    ELSE undo_previous(dict, index - 1)

\* a backtrack that drops every candidate of the previous word, not only the
\* one that was tried
backtrack_drop_all(word, dict) ==
    IF index - 1 < 0
    THEN grow
    ELSE /\ table' = table_history[index]
         /\ table_history' = RemoveAt(table_history, index)
         /\ index' = index - 1
         /\ all_workable_posits' =
                DictSet(DictDel(dict, word), cur_word(words, index - 1), <<>>)
         /\ UNCHANGED <<dim, all_positions>>

\* lines 371-389: the current word has no workable position
backtrack(word, dict) ==
    IF index - 1 < 0
    THEN grow
    ELSE undo_previous(DictDel(dict, word), index - 1)

\* a placement that takes the snapshot after writing the word
place_snapshot_after(word, dict) ==
    LET pos == dict[word][1]
        idx == indices(pos, Len(word))
    IN  /\ table' = [c \in DOMAIN table |->
                        IF \E i \in DOMAIN idx : idx[i] = c
                        THEN word[CHOOSE i \in DOMAIN idx : idx[i] = c]
                        ELSE table[c]]
        /\ table_history' = Append(table_history, table')
        /\ index' = index + 1
        /\ all_workable_posits' = dict
        /\ UNCHANGED <<dim, all_positions>>

\* a placement that writes the word at the last cached position
place_last(word, dict) ==
    LET pos == dict[word][Len(dict[word])]
        idx == indices(pos, Len(word))
    IN  /\ table_history' = Append(table_history, table)
        /\ table' = [c \in DOMAIN table |->
                        IF \E i \in DOMAIN idx : idx[i] = c
                        THEN word[CHOOSE i \in DOMAIN idx : idx[i] = c]
                        ELSE table[c]]
        /\ index' = index + 1
        /\ all_workable_posits' = dict
        /\ UNCHANGED <<dim, all_positions>>

\* lines 392-399: try the first position
place(word, dict) ==
    LET pos == dict[word][1]
        idx == indices(pos, Len(word))
    IN  /\ table_history' = Append(table_history, table)
        /\ table' = [c \in DOMAIN table |->
                        IF \E i \in DOMAIN idx : idx[i] = c
                        THEN word[CHOOSE i \in DOMAIN idx : idx[i] = c]
                        ELSE table[c]]
        /\ index' = index + 1
        /\ all_workable_posits' = dict
        /\ UNCHANGED <<dim, all_positions>>

loop_iteration ==
    /\ pc = "loop"
    /\ loop_condition
    /\ progress_calls < MaxCalls
    /\ queued < MaxQueued
    /\ LET word == cur_word(words, index) IN
       \E got \in cur_workable_posits(word, all_workable_posits, all_positions,
                                      table, intersect_bias) :
           LET dict == DictSet(all_workable_posits, word, got) IN
           IF got = <<>> THEN backtrack(word, dict) ELSE place(word, dict)
    /\ progress_step
    /\ UNCHANGED <<words, size_fac, directions, intersect_bias, halted, pc,
                   result, arg_words, cancel_at, progress_callback,
                   returned_vars, cli_vars, unit_vars, gui_vars>>

\* line 368: the while condition is false
loop_exit ==
    /\ pc = "loop"
    /\ ~loop_condition
    /\ pc' = "exited"
    /\ UNCHANGED <<words, size_fac, dim, directions, intersect_bias, table,
                   all_workable_posits, all_positions, table_history, index,
                   halted, result, arg_words, cancel_at, progress_callback,
                   progress_vars, returned_vars, cli_vars, unit_vars, gui_vars>>

\* lines 405-406
check_halted ==
    /\ pc = "exited"
    /\ IF halted
       THEN pc' = "idle" /\ result' = "None" /\ generate_puzzle("None")
       ELSE pc' = "finish" /\ UNCHANGED <<result, gui_vars>>
    /\ UNCHANGED <<words, size_fac, dim, directions, intersect_bias, table,
                   all_workable_posits, all_positions, table_history, index,
                   halted, arg_words, cancel_at, progress_callback,
                   progress_vars, returned_vars, cli_vars, unit_vars>>

-----------------------------------------------------------------------------
(* render_puzzle.  A text is the sequence of its pieces: the string of one   *)
(* cell, " " between the cells of a row, "\n" between the rows.  In the     *)
(* puzzle view random.choice makes a piece any one of several strings, so   *)
(* every piece of that text is the set of the strings it can be.            *)

\* the lambda of fill_with_random: the strings it can return for `spot`
fill_with_random(spot) == IF spot # "" THEN {spot} ELSE Range(ALL_CHARS)

\* a fill that shows the placeholder in every cell
fill_with_dots_only(spot) == PLACEHOLDER

\* the lambda of fill_with_dots
fill_with_dots(spot) == IF spot # "" THEN spot ELSE PLACEHOLDER

\* np.fliplr and np.rot90 on a d x d array indexed [first, second]
fliplr(m, d) == [c \in Cells(d) |-> m[<<c[1], d - 1 - c[2]>>]]

\* a rot90 that leaves the array as it is
rot90_none(m, d) == m

rot90(m, d) == [c \in Cells(d) |-> m[<<c[2], d - 1 - c[1]>>]]

\* lines 440-444: the rows of the array, cells joined by `space`, rows by
\* `newline`
\* (shown \in {...} evaluates the array once)
rows_text(m, d, space, newline) ==
    LET row(shown, r) ==
            join(space, [c \in 1..d |-> << shown[<<r - 1, c - 1>>] >>])
    IN  CHOOSE text \in { join(newline, [r \in 1..d |-> row(shown, r)]) :
                              shown \in { rot90(fliplr(m, d), d) } } : TRUE

\* lines 430-434: lower case, dots, and the start cell of every cached first
\* position in upper case
key_table_all_upper ==
    [c \in DOMAIN table |-> str_upper(fill_with_dots(table[c]))]

key_table ==
    LET dotted == [c \in DOMAIN table |-> fill_with_dots(str_lower(table[c]))]
        starts == { << all_workable_posits[w][1].x, all_workable_posits[w][1].y >> :
                        w \in DOMAIN all_workable_posits }
    IN  [c \in DOMAIN table |->
            IF c \in starts THEN str_upper(dotted[c]) ELSE dotted[c]]

\* a puzzle view that fills the empty cells like the answer key
puzzle_table_dots == [c \in DOMAIN table |-> {fill_with_dots(table[c])}]

\* line 438
puzzle_table == [c \in DOMAIN table |-> fill_with_random(table[c])]

render_puzzle(answer_key) ==
    IF answer_key
    THEN rows_text(key_table, shape(table), " ", "\n")
    ELSE rows_text(puzzle_table, shape(table), {" "}, {"\n"})

\* a return of the pair that leaves the flag as the loop had it
return_result_keep_halted ==
    /\ pc = "finish"
    /\ UNCHANGED halted
    /\ IF \E w \in DOMAIN all_workable_posits : all_workable_posits[w] = <<>>
       THEN /\ result' = "raised"
            /\ UNCHANGED <<returned_vars, exit_status>>
            /\ generate_puzzle("raised")
       ELSE /\ result' = "pair"
            /\ puzz' = render_puzzle(FALSE)
            /\ puzzkey' = render_puzzle(TRUE)
            /\ exit_status' = IF progress_callback THEN exit_status
                                                    ELSE Some(0)
            /\ generate_puzzle("pair")
    /\ pc' = "idle"
    /\ UNCHANGED <<words, size_fac, dim, directions, intersect_bias, table,
                   all_workable_posits, all_positions, table_history, index,
                   arg_words, cancel_at, progress_callback, progress_vars,
                   cli_words, unit_vars>>

\* lines 409-411
return_result ==
    /\ pc = "finish"
    /\ halted' = TRUE
    /\ IF \E w \in DOMAIN all_workable_posits : all_workable_posits[w] = <<>>
       THEN /\ result' = "raised"                 \* positions[0]: IndexError
            /\ UNCHANGED <<returned_vars, exit_status>>
            /\ generate_puzzle("raised")
       ELSE /\ result' = "pair"
            /\ puzz' = render_puzzle(FALSE)
            /\ puzzkey' = render_puzzle(TRUE)
            \* main prints the pair and returns None
            /\ exit_status' = IF progress_callback THEN exit_status
                                                    ELSE Some(0)
            /\ generate_puzzle("pair")
    /\ pc' = "idle"
    /\ UNCHANGED <<words, size_fac, dim, directions, intersect_bias, table,
                   all_workable_posits, all_positions, table_history, index,
                   arg_words, cancel_at, progress_callback, progress_vars,
                   cli_words, unit_vars>>

\* the caller sets Generator.halted while the call is in progress
cancel ==
    /\ pc # "idle"
    /\ progress_callback
    /\ halted' = TRUE
    /\ cancel_at' = pc
    /\ UNCHANGED <<words, size_fac, dim, directions, intersect_bias, table,
                   all_workable_posits, all_positions, table_history, index,
                   pc, result, arg_words, progress_callback, progress_vars,
                   returned_vars, cli_vars, unit_vars, gui_vars>>

-----------------------------------------------------------------------------
(* Specification *)

\* the first call on the object
first_call ==
    /\ pc = "idle"
    /\ result = "norun"
    /\ progress_callback
    /\ UNCHANGED cli_vars
    /\ \E w_arg \in WordArgs, d_arg \in DirectionArgs,
          sf_arg \in SizeFacArgs, b_arg \in BiasArgs :
           gen_word_search(w_arg, d_arg, sf_arg, b_arg)

\* a later call on the same object after a run has returned: without
\* arguments, as GUICommon.generate_puzzle calls it, or with an empty list
repeat_call ==
    /\ pc = "idle"
    /\ result \in {"pair", "None"}
    /\ progress_callback
    /\ UNCHANGED cli_vars
    /\ \E w_arg \in {NoWords, <<>>} :
           gen_word_search(w_arg, NoArg, NoArg, NoArg)

\* the words argument of a call that follows one that raised
RetryWordArgs == { NoWords, << <<"A">>, <<"B">> >> }

\* a call on the same object after a call that raised: with the stored
\* words or with a list of words, one direction and size factor 1
retry_call ==
    /\ pc = "idle"
    /\ result = "raised"
    /\ progress_callback
    /\ UNCHANGED cli_vars
    /\ \E w_arg \in RetryWordArgs :
           gen_word_search(w_arg, Some(<<DIRECTIONS[2]>>), Some(1), NoArg)

\* __main__.main in CLI mode: its own Generator, no progress callback
main ==
    /\ pc = "idle"
    /\ result = "norun"
    /\ exit_status = NoArg
    /\ ~progress_callback
    /\ \E argv \in CliWordLists \ {<<>>}, stdin \in CliWordLists,
          use_hard \in BOOLEAN, size_factor \in CliSizeFactors,
          bias_arg \in CliBiasArgs :
           LET given == IF argv = << <<"-">> >> THEN stdin ELSE argv
               ws == [i \in DOMAIN given |-> upper(given[i])]
           IN  /\ cli_words' = given
               /\ IF \E i \in DOMAIN ws : \E j \in DOMAIN ws[i] :
                         ws[i][j] \notin Range(ALL_CHARS)
                  THEN /\ exit_status' = Some(1)
                       /\ UNCHANGED <<words, size_fac, dim, directions,
                                      intersect_bias, table,
                                      all_workable_posits, all_positions,
                                      table_history, index, halted, pc, result,
                                      arg_words, cancel_at, progress_callback,
                                      progress_vars, returned_vars, unit_vars,
                                      gui_vars>>
                  ELSE /\ UNCHANGED exit_status
                       /\ gen_word_search(
                              ws,
                              Some(IF use_hard THEN DIRECTIONS
                                               ELSE EASY_DIRECTIONS),
                              Some(size_factor), bias_arg)

call == first_call \/ repeat_call \/ retry_call \/ main

worker ==
    \/ begin_loop
    \/ loop_iteration
    \/ loop_exit
    \/ check_halted
    \/ return_result

Next ==
    \/ call
    \/ worker
    \/ cancel

Spec == Init /\ [][Next]_vars

\* the worker thread keeps running; the caller may or may not cancel
FairSpec == Spec /\ WF_vars(worker)

-----------------------------------------------------------------------------
(* Methods called on their own, outside a run of gen_word_search *)

\* Position(x, y, direction).bounds_check(length, puzz_dim) for the positions
\* the constructor accepts (line 70: x >= 0 and y >= 0), start cells beyond
\* the puzzle included
BoundsCheckCalls ==
    { [op |-> "bounds_check", pos |-> Position(x, y, d),
       length |-> length, puzz_dim |-> puzz_dim] :
          x \in 0..MaxDim, y \in 0..MaxDim, d \in Range(DIRECTIONS),
          length \in 1..MaxDim, puzz_dim \in 1..MaxDim }

\* Position(...) == Position(...) for two positions of a small grid
EqCalls ==
    LET Positions == { Position(x, y, d) :
                          x \in 0..1, y \in 0..1, d \in Range(DIRECTIONS) }
    IN  { [op |-> "__eq__", pos |-> p, other |-> q] :
              p \in Positions, q \in Positions }

UnitInit ==
    /\ Generator_init
    /\ GUICommon_init("none")
    /\ unit_call \in { Some(c) : c \in BoundsCheckCalls \cup EqCalls }
    /\ unit_value = NoArg

\* lines 74-90 run on the drawn arguments
bounds_check_call ==
    /\ unit_value = NoArg
    /\ \E c \in unit_call :
           /\ c.op = "bounds_check"
           /\ unit_value' = Some(bounds_check(c.pos, c.length, c.puzz_dim))
    /\ UNCHANGED <<words, size_fac, dim, directions, intersect_bias, table,
                   all_workable_posits, all_positions, table_history, index,
                   halted, pc, result, arg_words, cancel_at, progress_callback,
                   progress_vars, returned_vars, cli_vars, unit_call, gui_vars>>

\* line 127: `a, b, c == d, e, f` is the tuple (a, b, (c == d), e, f); a
\* direction (a tuple) never equals an x coordinate (an int)
Position_eq(self, other) ==
    << self.x, self.y, FALSE, other.y, other.direction >>

\* bool(value) of a tuple: true unless it is empty
truthy(value) == Len(value) > 0

\* lines 119-127 run on the drawn arguments
eq_call ==
    /\ unit_value = NoArg
    /\ \E c \in unit_call :
           /\ c.op = "__eq__"
           /\ unit_value' = Some(Position_eq(c.pos, c.other))
    /\ UNCHANGED <<words, size_fac, dim, directions, intersect_bias, table,
                   all_workable_posits, all_positions, table_history, index,
                   halted, pc, result, arg_words, cancel_at, progress_callback,
                   progress_vars, returned_vars, cli_vars, unit_call, gui_vars>>

UnitNext == bounds_check_call \/ eq_call

UnitSpec == UnitInit /\ [][UnitNext]_vars

-----------------------------------------------------------------------------
(* The legacy engine, src/algorithm.py: gen_word_search is a static method  *)
(* whose words, dim, table, all_workable_posits, all_positions,             *)
(* table_history and index are local variables.  Position and can_place are *)
(* the same there.  The table is one NumPy array that is written in place;  *)
(* line 321 appends that array itself to the history, so every entry of the *)
(* history is the live table and holds whatever the table holds.            *)

LegacyWordArgs == WordLists \ {<<>>}

LegacyDirectionArgs == { ValueOf(d) : d \in DirectionArgs }

LegacySizeFacArgs == 1..MaxSizeFac

\* the default, False
LegacyBiasArgs == {0}

\* the call, lines 258-267
LegacyInit ==
    /\ \E w_arg \in LegacyWordArgs : words \in list_of_set(w_arg)
    /\ directions \in LegacyDirectionArgs
    /\ size_fac \in LegacySizeFacArgs
    /\ intersect_bias \in LegacyBiasArgs
    /\ dim = get_puzzle_dim(words, size_fac)
    /\ table = create_empty_table(dim)
    /\ all_workable_posits = EmptyDict
    /\ all_positions = all_posits(dim, directions)
    /\ table_history = <<>>
    /\ index = 0
    /\ pc = "legacy"
    /\ result = "running"
    \* the legacy engine has no flag, no callback and no object
    /\ halted = FALSE
    /\ progress_callback = FALSE
    /\ arg_words = NoWords
    /\ cancel_at = "none"
    /\ progress_calls = 0
    /\ progress_seen = NoIndex
    /\ puzz = NoText
    /\ puzzkey = NoText
    /\ cli_words = NoWords
    /\ exit_status = NoArg
    /\ GUICommon_init("none")
    /\ unit_call = NoArg
    /\ unit_value = NoArg

\* lines 304-310
legacy_grow ==
    /\ dim + 1 <= MaxDim
    /\ dim' = dim + 1
    /\ table' = create_empty_table(dim + 1)
    /\ all_workable_posits' = EmptyDict
    /\ all_positions' = all_posits(dim + 1, directions)
    /\ table_history' = <<>>
    /\ index' = 0

\* lines 313-316: the table becomes entry idx of the history, which is the
\* array it already is, and the tried position of words[idx] is dropped
legacy_undo_previous(dict, idx) ==
    LET prev == words[idx + 1]
        got == dict[prev]
    IN  /\ table' = table_history[idx + 1]
        /\ table_history' = RemoveAt(table_history, idx + 1)
        /\ index' = idx
        /\ \E rest \in shuffled(Tail(got), prev, table, intersect_bias) :
               all_workable_posits' = DictSet(dict, prev, rest)
        /\ UNCHANGED <<dim, all_positions>>

\* lines 320-322: the word is written into the table, then the table itself
\* is appended to the history
legacy_place(word, dict) ==
    LET pos == dict[word][1]
        idx == indices(pos, Len(word))
        new == [c \in DOMAIN table |->
                   IF \E i \in DOMAIN idx : idx[i] = c
                   THEN word[CHOOSE i \in DOMAIN idx : idx[i] = c]
                   ELSE table[c]]
    IN  /\ table' = new
        /\ table_history' = [k \in 1..(Len(table_history) + 1) |-> new]
        /\ index' = index + 1
        /\ all_workable_posits' = dict
        /\ UNCHANGED <<dim, all_positions>>

\* lines 268-322: one iteration of the while loop
legacy_loop_iteration ==
    /\ pc = "legacy"
    /\ index < Len(words)
    /\ LET word == words[index + 1] IN
       \E got \in cur_workable_posits(word, all_workable_posits, all_positions,
                                      table, intersect_bias) :
           LET dict == DictSet(all_workable_posits, word, got) IN
           IF got # <<>> THEN legacy_place(word, dict)
           ELSE IF index - 1 < 0 THEN legacy_grow
           ELSE legacy_undo_previous(DictDel(dict, word), index - 1)
    /\ UNCHANGED <<words, size_fac, directions, intersect_bias, halted, pc,
                   result, arg_words, cancel_at, progress_callback,
                   progress_vars, returned_vars, cli_vars, unit_vars, gui_vars>>

\* np.rot90(np.fliplr(puzzle)): the cell [i, j] of the result is the cell
\* [j, i] of the puzzle
rot90_fliplr(puzzle) == [c \in DOMAIN puzzle |-> puzzle[<<c[2], c[1]>>]]

\* lines 268 and 325: the while condition is false, the table is returned
legacy_return ==
    /\ pc = "legacy"
    /\ ~(index < Len(words))
    /\ unit_value' = Some(rot90_fliplr(table))
    /\ pc' = "idle"
    /\ result' = "table"
    /\ UNCHANGED <<words, size_fac, dim, directions, intersect_bias, table,
                   all_workable_posits, all_positions, table_history, index,
                   halted, arg_words, cancel_at, progress_callback,
                   progress_vars, returned_vars, cli_vars, unit_call, gui_vars>>

LegacyNext == legacy_loop_iteration \/ legacy_return

LegacySpec == LegacyInit /\ [][LegacyNext]_vars

-----------------------------------------------------------------------------
(* The windows, gui_common.py with tk_mainwindow.py or qt_mainwindow.py: a  *)
(* GUI thread that handles the clicks and, in Qt, the queued slot           *)
(* _progress_update, and a generation thread that runs generate_puzzle.     *)
(* The part of gen_word_search before line 367 is taken in one step with    *)
(* the click that starts the thread.                                        *)

\* current_words: the button is disabled while there is no word (line 182)
GuiWordLists == { << <<"A">> >>, << <<"A">>, <<"B">> >> }

\* use_hard: the check box, unchecked as GUICommon.Defaults has it
GuiUseHard == {FALSE}

\* size_factor: the spin box allows 1..99
GuiSizeFactors == 1..MaxSizeFac

\* intersect_bias: the radio buttons, on "random" as GUICommon.Defaults has it
GuiBiases == {0}

\* property directions, lines 171-177
gui_directions(use_hard) == IF use_hard THEN DIRECTIONS ELSE EASY_DIRECTIONS

\* a window is open: GUICommon.__init__ made its Generator with the callback
GuiInit ==
    /\ Generator_init
    /\ progress_callback
    /\ \E kit \in {"tk", "qt"} : GUICommon_init(kit)
    /\ unit_call = NoArg
    /\ unit_value = NoArg

\* a check that never sees the thread
is_thread_running_never == FALSE

\* is_thread_running: gen_thread is set and alive
is_thread_running == gen_thread = "alive"

\* lines 157-164; lines 162-164 write the settings to the Generator
\* (configure_generator_object) and start the thread that calls
\* gen_word_search without arguments
on_gen_cancel_button_click ==
    /\ toolkit # "none"
    /\ IF is_thread_running
       THEN /\ halted' = TRUE
            /\ cancel_at' = pc
            /\ UNCHANGED <<words, size_fac, dim, directions, intersect_bias,
                           table, all_workable_posits, all_positions,
                           table_history, index, pc, result, arg_words,
                           progress_callback, progress_vars, returned_vars,
                           cli_vars, unit_vars, gui_vars>>
       ELSE /\ UNCHANGED cli_vars
            /\ \E current_words \in GuiWordLists, use_hard \in GuiUseHard,
                  size_factor \in GuiSizeFactors, bias \in GuiBiases :
                   gen_word_search_on(
                       [words |-> current_words,
                        directions |-> gui_directions(use_hard),
                        size_fac |-> size_factor,
                        intersect_bias |-> bias],
                       NoWords, NoArg, NoArg, NoArg)

\* The values a read of Generator.index on the GUI thread can return while
\* the generation thread is where `pc` says: the value between two
\* iterations, and, when the next iteration finds no position for the first
\* word, the -1 that line 376 leaves until the reset of line 382
index_read_by_gui ==
    {index} \cup
    ( IF /\ pc = "loop"
         /\ loop_condition
         /\ index = 0
         /\ cur_workable_posits(cur_word(words, index), all_workable_posits,
                                all_positions, table, intersect_bias)
                = { <<>> }
      THEN {index - 1}
      ELSE {} )

\* qt_mainwindow.py lines 147-150: the queued slot runs on the GUI thread
_progress_update ==
    /\ toolkit = "qt"
    /\ queued > 0
    /\ queued' = queued - 1
    /\ progress_seen' \in index_read_by_gui
    /\ UNCHANGED <<words, size_fac, dim, directions, intersect_bias, table,
                   all_workable_posits, all_positions, table_history, index,
                   halted, pc, result, arg_words, cancel_at,
                   progress_callback, progress_calls, returned_vars, cli_vars,
                   unit_vars, gui_vars>>

GuiNext ==
    \/ on_gen_cancel_button_click
    \/ worker
    \/ _progress_update

GuiSpec == GuiInit /\ [][GuiNext]_vars

-----------------------------------------------------------------------------
(* Properties *)

in_call == pc \in {"start", "loop", "exited", "finish"}

\* `word` is read letter for letter along `pos` inside a d x d `puzzle`
reads(word, pos, puzzle, d) ==
    \A i \in 1..Len(word) :
        LET c == indices(pos, Len(word))[i] IN
        /\ c \in Cells(d)
        /\ puzzle[c] = word[i]

\* the cells of the position at which words[k] is placed
placed_cells(k) ==
    indices(all_workable_posits[words[k]][1], Len(words[k]))

\* C1: when gen_word_search returns a result, every word of the deduplicated
\* list is read in the final grid as a straight run from some start cell in
\* one of the active directions, all of its cells inside the grid.
C1_WordsReadable ==
    (pc = "idle" /\ result = "pair") =>
        \A k \in DOMAIN words :
            \E x \in 0..(dim - 1), y \in 0..(dim - 1), j \in DOMAIN directions :
                reads(words[k], Position(x, y, directions[j]), table, dim)

C1_Witness ==
    /\ pc = "idle" /\ result = "pair"
    /\ Len(words) = 2
    /\ \E k \in DOMAIN words : Len(words[k]) = 2

\* C2: with a non-empty direction set the placement loop, unless it is
\* cancelled, ends with the cursor at len(words), also when the grid has to
\* grow on the way.
C2_LoopTerminates ==
    (pc = "loop" /\ directions # <<>>)
        ~> (halted \/ (pc = "exited" /\ index = Len(words)))

C2_Witness ==
    /\ pc = "exited" /\ ~halted /\ index = Len(words)
    /\ dim > get_puzzle_dim(words, size_fac)

\* C3: at every iteration boundary each placed word reads along the first
\* entry of its cached candidate list, and two placed words that share a cell
\* have the same letter there.
C3_PlacedWordsIntact ==
    pc \in {"loop", "exited", "finish"} =>
        /\ \A k \in 1..index :
               /\ words[k] \in DOMAIN all_workable_posits
               /\ all_workable_posits[words[k]] # <<>>
               /\ reads(words[k], all_workable_posits[words[k]][1], table, dim)
        /\ \A k1 \in 1..index, k2 \in 1..index :
               \A i \in 1..Len(words[k1]), j \in 1..Len(words[k2]) :
                   placed_cells(k1)[i] = placed_cells(k2)[j]
                       => words[k1][i] = words[k2][j]

C3_Witness ==
    /\ pc = "loop" /\ index = 2
    /\ \E i \in 1..Len(words[1]), j \in 1..Len(words[2]) :
           placed_cells(1)[i] = placed_cells(2)[j]

\* C4 as claimed: whenever the cancel flag was set after the loop had started,
\* the call returns None.
C4_CancelReturnsNone ==
    (pc = "idle" /\ cancel_at # "none") => result = "None"

\* C4 as amended: once the cancel flag is set while the loop runs or before
\* line 405 has read it, no further iteration changes the search state and
\* the call returns None.
C4_CancelStopsLoop ==
    [][ (halted /\ pc \in {"loop", "exited"}) =>
            /\ UNCHANGED <<index, dim, table, table_history,
                           all_workable_posits, all_positions>>
            /\ pc' \in {"loop", "exited", "idle"}
            /\ (pc' = "idle" => result' = "None") ]_vars

C4_Witness ==
    /\ pc = "idle" /\ result = "None"
    /\ cancel_at = "loop"
    /\ index > 0 /\ index < Len(words)

\* C5: a pair is returned only with the cursor at len(words) and the flag
\* unset, None only after a cancel, and invalid input (an empty word list, a
\* non-positive size factor) ends the call with a raised failure.
C5_ThreeOutcomes ==
    /\ (pc = "finish" \/ (pc = "idle" /\ result = "pair"))
           => index = Len(words)
    /\ (pc = "idle" /\ result = "None") => cancel_at # "none"
    /\ ((pc = "start" /\ arg_words = <<>>) \/ (result # "norun" /\ size_fac <= 0))
           => (pc = "idle" /\ result = "raised")

\* C6: a call with an empty word list fails, whatever the object holds: it
\* never gets to size and reset a puzzle.
C6_EmptyListFails ==
    arg_words = <<>> => (pc = "idle" /\ result = "raised")

\* C7: a call with a non-positive size factor fails.
C7_NonPositiveSizeFacFails ==
    (result # "norun" /\ size_fac <= 0) => (pc = "idle" /\ result = "raised")

\* ceil(sqrt(n)) for a non-negative integer n
CeilSqrt(n) == CHOOSE r \in 0..n : r * r >= n /\ (r = 0 \/ (r - 1) * (r - 1) < n)

\* C8: the initial dimension is max(ceil(sqrt(total letters * size_fac)),
\* longest word) for a positive size_fac.
C8_DimIsCeilSqrt ==
    (pc = "start" /\ size_fac > 0) =>
        dim = Max(CeilSqrt(SumLen(words) * size_fac), LongestLen(words))

\* C9: within one call the dimension never decreases and is at least the
\* length of the longest word.
C9_DimMonotone ==
    /\ [](in_call => dim >= LongestLen(words))
    /\ [][(in_call /\ in_call') => dim' >= dim]_vars

C9_Witness ==
    /\ pc = "loop"
    /\ dim > get_puzzle_dim(words, size_fac)
    /\ index > 0

\* the distinct elements of ws in the order of their first occurrence
RECURSIVE first_occurrences(_)
first_occurrences(ws) ==
    IF ws = <<>> THEN <<>>
    ELSE LET front == first_occurrences(SubSeq(ws, 1, Len(ws) - 1))
             last == ws[Len(ws)]
         IN  IF last \in Range(front) THEN front ELSE Append(front, last)

\* C10: after deduplication words[i] is the i-th distinct word of the
\* caller's list.
C10_FirstOccurrenceOrder ==
    (pc = "start" /\ arg_words # <<>> /\ arg_words # NoWords)
        => words = first_occurrences(arg_words)

\* the d x d grid that holds the first k placed words and nothing else
only_placed(k) ==
    [c \in Cells(dim) |->
        IF \E j \in 1..k : \E i \in 1..Len(words[j]) : placed_cells(j)[i] = c
        THEN LET j == CHOOSE j \in 1..k :
                          \E i \in 1..Len(words[j]) : placed_cells(j)[i] = c
                 i == CHOOSE i \in 1..Len(words[j]) : placed_cells(j)[i] = c
             IN  words[j][i]
        ELSE ""]

\* C20: a backtrack step with the cursor above 0 leaves the grid as it was
\* right before the previous word was placed (the snapshot taken then, which
\* holds the earlier words and nothing else), removes that one snapshot from
\* the history and removes the first, just tried candidate, and only that one,
\* from the cached list of the previous word.
C20_BacktrackRestores ==
    [][ (pc = "loop" /\ index' = index - 1) =>
            LET prev == words[index]
                old == all_workable_posits[prev]
                new == all_workable_posits'[prev]
            IN  /\ Len(table_history) = index
                /\ table' = table_history[index]
                /\ table' = only_placed(index)'
                /\ table_history' = SubSeq(table_history, 1, index - 1)
                /\ Len(new) = Len(old) - 1
                /\ Range(new) = Range(old) \ {old[1]} ]_vars

\* after a backtrack step: the word under the cursor has a cached list that
\* lost a candidate and still has one to try
C20_Witness ==
    /\ pc = "loop" /\ index > 0 /\ index < Len(words)
    /\ words[index + 1] \in DOMAIN all_workable_posits
    /\ all_workable_posits[words[index + 1]] # <<>>
    /\ Len(all_workable_posits[words[index + 1]])
           < Len(workable(words[index + 1], all_positions, table))

\* a step of the placement loop: taken at the while condition while it is
\* true, and not the caller's setting of the cancel flag
iteration == pc = "loop" /\ loop_condition /\ ~halted'

\* C17: with a progress callback, every iteration of the placement loop
\* (placement, backtrack or growth) calls it exactly once, after the
\* iteration has updated the state (the callback reads the new cursor), and
\* no other step calls it: the calls of a run count its iterations.
C17_ProgressOncePerIteration ==
    [][ progress_callback =>
            IF iteration
            THEN /\ progress_calls' = progress_calls + 1
                 /\ progress_seen' = index'
            ELSE \/ progress_calls' = progress_calls
                 \/ (pc = "idle" /\ progress_calls' = 0) ]_vars

\* a run that was reported after placements, a backtrack and a growth
C17_Witness ==
    /\ progress_callback
    /\ pc = "loop" /\ index = 1 /\ progress_seen = 1
    /\ dim > get_puzzle_dim(words, size_fac)
    /\ progress_calls >= 4

\* C18: with a single word the grid keeps its computed side
\* max(length of the word, computed size), the word is placed by the first
\* iteration from its full candidate list, and nothing is ever backtracked:
\* the run completes after exactly one iteration.
C18_SingleWordFirstTry ==
    (pc \in {"loop", "exited", "finish"} /\ Len(words) = 1) =>
        /\ dim = get_puzzle_dim(words, size_fac)
        /\ dim = Max(IntSqrt(Len(words[1]) * size_fac), Len(words[1]))
        /\ index <= 1
        /\ Len(table_history) = index
        /\ index = 0 => all_workable_posits = EmptyDict
        /\ index = 1 =>
               /\ DOMAIN all_workable_posits = {words[1]}
               /\ Len(all_workable_posits[words[1]])
                      = Len(workable(words[1], all_positions,
                                     create_empty_table(dim)))
        /\ progress_callback => progress_calls = index
        /\ (pc = "finish" \/ (pc = "exited" /\ ~halted)) => index = 1

C18_Witness ==
    /\ pc = "finish" /\ Len(words) = 1 /\ Len(words[1]) = 2
    /\ dim = 2 /\ progress_calls = 1

\* text.split(sep) on a sequence of text pieces
RECURSIVE split(_, _)
split(text, sep) ==
    IF \E i \in DOMAIN text : text[i] = sep
    THEN LET i == CHOOSE i \in DOMAIN text :
                      text[i] = sep /\ \A j \in 1..(i - 1) : text[j] # sep
         IN  <<SubSeq(text, 1, i - 1)>>
                 \o split(SubSeq(text, i + 1, Len(text)), sep)
    ELSE <<text>>

\* the rows of a text, each row the sequence of its cells, each cell the
\* sequence of its pieces
text_rows(text, space, newline) ==
    LET lines == split(text, newline)
    IN  [r \in DOMAIN lines |-> split(lines[r], space)]

puzz_rows == text_rows(puzz, {" "}, {"\n"})

puzzkey_rows == text_rows(puzzkey, " ", "\n")

\* a text of d rows of d cells of one piece each
square_text(rows, d) ==
    /\ Len(rows) = d
    /\ \A r \in 1..d : Len(rows[r]) = d /\ \A c \in 1..d : Len(rows[r][c]) = 1

returned_pair == pc = "idle" /\ result = "pair"

\* C12: puzzle text and answer key of a completed run have the same rows and
\* cells; at a cell that holds a letter of a placed word both show that
\* letter up to case; at a cell that is empty in the grid they differ, the
\* puzzle showing a letter of the alphabet and the key the placeholder.
C12_KeyMatchesPuzzle ==
    returned_pair =>
        /\ Len(puzz_rows) = Len(puzzkey_rows)
        /\ \A r \in DOMAIN puzz_rows :
               /\ Len(puzz_rows[r]) = Len(puzzkey_rows[r])
               /\ \A c \in DOMAIN puzz_rows[r] :
                      Len(puzz_rows[r][c]) = Len(puzzkey_rows[r][c])
        /\ square_text(puzz_rows, dim)
        /\ \A x \in 0..(dim - 1), y \in 0..(dim - 1) :
               LET in_puzzle == puzz_rows[y + 1][x + 1][1]
                   in_key == puzzkey_rows[y + 1][x + 1][1]
               IN  IF table[<<x, y>>] # ""
                   THEN \A ch \in in_puzzle :
                            /\ str_upper(ch) = str_upper(in_key)
                            /\ str_upper(ch) = str_upper(table[<<x, y>>])
                   ELSE /\ in_puzzle \subseteq Range(ALL_CHARS)
                        /\ in_puzzle # {}
                        /\ in_key = PLACEHOLDER
                        /\ in_key \notin in_puzzle

\* a returned pair whose grid has empty cells and a cell shared by two words
C12_Witness ==
    /\ returned_pair
    /\ \E c \in DOMAIN table : table[c] = ""
    /\ Len(words) >= 2
    /\ \E i \in 1..Len(words[1]), j \in 1..Len(words[2]) :
           placed_cells(1)[i] = placed_cells(2)[j]

\* the start cells of the positions at which the words were placed
start_cells ==
    { << all_workable_posits[words[k]][1].x, all_workable_posits[words[k]][1].y >> :
          k \in 1..index }

\* C13: at completion the cache has an entry for every word, headed by the
\* position at which the word was placed (the grid holds exactly the words
\* written along these positions), and in the answer key a cell shows an
\* upper-case letter if and only if it is the start cell of such a position,
\* a lower-case letter at every other letter cell, and the placeholder at
\* every empty cell.
C13_KeyMarksStarts ==
    returned_pair =>
        /\ index = Len(words)
        /\ DOMAIN all_workable_posits = Range(words)
        /\ \A w \in Range(words) : all_workable_posits[w] # <<>>
        /\ table = only_placed(index)
        /\ square_text(puzzkey_rows, dim)
        /\ \A x \in 0..(dim - 1), y \in 0..(dim - 1) :
               LET in_key == puzzkey_rows[y + 1][x + 1][1]
                   spot == table[<<x, y>>]
               IN  /\ in_key \in Range(ALL_CHARS) <=> <<x, y>> \in start_cells
                   /\ <<x, y>> \in start_cells => in_key = str_upper(spot)
                   /\ (spot # "" /\ <<x, y>> \notin start_cells) =>
                          in_key = str_lower(spot) /\ in_key \in Range(LOWER_CHARS)
                   /\ spot = "" => in_key = PLACEHOLDER

\* a key with a start cell, a letter cell that starts no word and empty cells
C13_Witness ==
    /\ returned_pair
    /\ \E c \in DOMAIN table : table[c] = ""
    /\ \E c \in DOMAIN table : table[c] # "" /\ c \notin start_cells
    /\ Len(words) >= 2

\* C14: the puzzle view is dim rows of dim single characters: a non-empty
\* grid cell shows its stored letter, an empty one a character of ALL_CHARS;
\* rendering leaves the stored grid as it is.
C14_PuzzleView ==
    /\ [](returned_pair =>
            /\ square_text(puzz_rows, dim)
            /\ \A x \in 0..(dim - 1), y \in 0..(dim - 1) :
                   LET in_puzzle == puzz_rows[y + 1][x + 1][1]
                   IN  /\ \A ch \in in_puzzle : Len(ch) = 1
                       /\ IF table[<<x, y>>] # ""
                          THEN in_puzzle = {table[<<x, y>>]}
                          ELSE in_puzzle = Range(ALL_CHARS))
    /\ [][(pc = "finish") => table' = table]_vars

C14_Witness ==
    /\ returned_pair /\ dim = 3
    /\ \E c \in DOMAIN table : table[c] = ""
    /\ \E c \in DOMAIN table : table[c] # ""

\* the first position of the cached list of words[k]
placed_at(k) == all_workable_posits[words[k]][1]

\* C15: the texts show the stored grid transposed: row r, column c of a text
\* is the cell stored at [x = c, y = r], so a word placed with direction
\* (1, 0) reads from left to right in one text row and a word placed with
\* direction (0, 1) from top to bottom in one text column.
C15_RowsAreY ==
    returned_pair =>
        /\ \A x \in 0..(dim - 1), y \in 0..(dim - 1) :
               table[<<x, y>>] # "" =>
                   /\ puzz_rows[y + 1][x + 1][1] = {table[<<x, y>>]}
                   /\ str_upper(puzzkey_rows[y + 1][x + 1][1])
                          = str_upper(table[<<x, y>>])
        /\ \A k \in DOMAIN words : \A i \in 1..Len(words[k]) :
               /\ placed_at(k).direction = <<1, 0>> =>
                      puzz_rows[placed_at(k).y + 1][placed_at(k).x + i][1]
                          = {words[k][i]}
               /\ placed_at(k).direction = <<0, 1>> =>
                      puzz_rows[placed_at(k).y + i][placed_at(k).x + 1][1]
                          = {words[k][i]}

\* a two-letter word placed downwards, off the diagonal, and a word placed
\* to the right
C15_Witness ==
    /\ returned_pair
    /\ \E k \in DOMAIN words :
           /\ Len(words[k]) = 2
           /\ placed_at(k).direction = <<0, 1>>
           /\ placed_at(k).x # placed_at(k).y
    /\ \E k \in DOMAIN words : placed_at(k).direction = <<1, 0>>

\* the words main was given, every character in upper case
cli_upper == [i \in DOMAIN cli_words |->
                 [j \in DOMAIN cli_words[i] |-> str_upper(cli_words[i][j])]]

\* some character of the upper-cased words is outside ALL_CHARS
cli_invalid ==
    \E i \in DOMAIN cli_upper : \E j \in DOMAIN cli_upper[i] :
        cli_upper[i][j] \notin Range(ALL_CHARS)

\* C19: in CLI mode a character outside ALL_CHARS in the upper-cased words
\* makes main return 1 with the generator never invoked; otherwise the
\* generator is invoked with the upper-cased words, and only that once.
C19_CliValidates ==
    /\ []((cli_words # NoWords /\ cli_invalid) =>
              /\ exit_status = Some(1)
              /\ pc = "idle" /\ result = "norun"
              /\ words = NoWords /\ arg_words = NoWords)
    /\ []((cli_words # NoWords /\ ~cli_invalid) =>
              /\ exit_status = NoArg
              /\ result # "norun"
              /\ arg_words = cli_upper)
    /\ [](exit_status = Some(1) => cli_words # NoWords /\ cli_invalid)
    /\ [][(~progress_callback /\ pc = "idle"
             /\ (result # "norun" \/ exit_status # NoArg))
               => UNCHANGED vars]_vars

\* the generator was invoked for words typed in lower case
C19_Witness ==
    /\ ~progress_callback /\ pc = "start"
    /\ cli_words = << <<"a">>, <<"A", "b">> >>
    /\ arg_words = << <<"A">>, <<"A", "B">> >>

\* C11: after deduplication no two words of the list are equal up to letter
\* case (words that differ in case only are one word), and no word occurs
\* twice.
C11_CaseFoldedDedup ==
    pc = "start" =>
        \A i \in DOMAIN words, j \in DOMAIN words :
            upper(words[i]) = upper(words[j]) => i = j

\* C16: a run is determined by its arguments and its random choices: the
\* order in which it attempts the words is the only order that a run with
\* the same word list can have.
C16_Reproducible ==
    (pc = "start" /\ arg_words # NoWords /\ arg_words # <<>>) =>
        \A ws \in list_of_set(arg_words) : ws = words

\* the word under the cursor has no candidate left
no_candidate ==
    cur_workable_posits(cur_word(words, index), all_workable_posits,
                        all_positions, table, intersect_bias) = { <<>> }

\* C21: an iteration that finds no candidate for the word at cursor 0 (the
\* backtrack takes the cursor below 0), and no other step of the loop, raises
\* dim by exactly 1 and resets: the grid is a fresh empty dim x dim grid,
\* cache and history are empty, the cursor is 0 and the candidate positions
\* are every start cell of the new grid with every active direction.
C21_GrowResets ==
    [][ (pc = "loop") =>
            /\ (iteration /\ index = 0 /\ no_candidate) <=> dim' # dim
            /\ dim' # dim =>
                   /\ dim' = dim + 1
                   /\ table' = [c \in (0..dim) \X (0..dim) |-> ""]
                   /\ all_workable_posits' = EmptyDict
                   /\ table_history' = <<>>
                   /\ index' = 0
                   /\ Len(all_positions') = (dim + 1) * (dim + 1) * Len(directions)
                   /\ Range(all_positions')
                          = { [x |-> x, y |-> y, direction |-> directions[j]] :
                                  x \in 0..dim, y \in 0..dim,
                                  j \in DOMAIN directions } ]_vars

\* right after a growth that followed placements and a backtrack
C21_Witness ==
    /\ pc = "loop" /\ index = 0
    /\ dim = get_puzzle_dim(words, size_fac) + 1
    /\ all_workable_posits = EmptyDict
    /\ progress_calls >= 3
    /\ progress_seen = 0

\* `word` lies within `puzzle` along `pos` without changing a filled cell
legal_at(word, pos, puzzle) ==
    \A i \in 1..Len(word) :
        LET c == <<pos.x + pos.direction[1] * (i - 1),
                   pos.y + pos.direction[2] * (i - 1)>>
        IN  c \in DOMAIN puzzle /\ puzzle[c] \in {"", word[i]}

\* `puzzle` with `word` written along `pos`
written(word, pos, puzzle) ==
    [c \in DOMAIN puzzle |->
        IF \E i \in 1..Len(word) :
               c = <<pos.x + pos.direction[1] * (i - 1),
                     pos.y + pos.direction[2] * (i - 1)>>
        THEN word[CHOOSE i \in 1..Len(word) :
                      c = <<pos.x + pos.direction[1] * (i - 1),
                            pos.y + pos.direction[2] * (i - 1)>>]
        ELSE puzzle[c]]

RECURSIVE assignable(_, _)
\* words[k..] can be placed one after the other, in this order, on `puzzle`
assignable(k, puzzle) ==
    IF k > Len(words) THEN TRUE
    ELSE \E x \in 0..(dim - 1), y \in 0..(dim - 1), j \in DOMAIN directions :
             LET pos == [x |-> x, y |-> y, direction |-> directions[j]]
             IN  /\ legal_at(words[k], pos, puzzle)
                 /\ assignable(k + 1, written(words[k], pos, puzzle))

\* C22: the search at one dim is exhaustive: the loop grows the grid only
\* when the words cannot be placed, in placement order, in a dim x dim grid
\* with the active directions; when they can, the run ends at that dim.
C22_GrowsOnlyWhenNoFit ==
    [][ (pc = "loop" /\ dim' # dim) =>
            ~assignable(1, [c \in (0..(dim - 1)) \X (0..(dim - 1)) |-> ""]) ]_vars

\* a run that had to backtrack and still ended at the dim it started with
C22_Witness ==
    /\ pc = "exited" /\ ~halted
    /\ index = Len(words)
    /\ dim = get_puzzle_dim(words, size_fac)
    /\ progress_calls > Len(words)
    /\ assignable(1, [c \in (0..(dim - 1)) \X (0..(dim - 1)) |-> ""])

\* the cell of `puzzle` at c holds a letter that the step removes or replaces
letter_changes(c) ==
    /\ table[c] # ""
    /\ (c \in DOMAIN table') => table'[c] # table[c]

\* C23: a placement step changes only cells that were empty: a filled cell
\* holds the same letter afterwards and the cells outside the word's cell
\* sequence are unchanged; a filled cell changes only in a backtrack step, a
\* growth or the reset of a new call.
C23_PlacementKeepsLetters ==
    [][ /\ (pc = "loop" /\ index' = index + 1) =>
              LET word == words[index + 1]
                  pos == all_workable_posits'[word][1]
                  cells == { <<pos.x + pos.direction[1] * (i - 1),
                               pos.y + pos.direction[2] * (i - 1)>> :
                                 i \in 1..Len(word) }
              IN  /\ DOMAIN table' = DOMAIN table
                  /\ \A c \in DOMAIN table :
                         /\ table[c] # "" => table'[c] = table[c]
                         /\ c \notin cells => table'[c] = table[c]
        /\ (\E c \in DOMAIN table : letter_changes(c)) =>
              \/ pc = "loop" /\ index' = index - 1
              \/ pc = "loop" /\ dim' = dim + 1
              \/ pc = "idle" /\ pc' = "start" ]_vars

\* a word was just written across a cell that was already filled
C23_Witness ==
    /\ pc = "loop" /\ index >= 2
    /\ Len(table_history) = index
    /\ LET word == words[index]
           pos == all_workable_posits[word][1]
           before == table_history[index]
       IN  /\ \E i \in 1..Len(word) :
                  before[<<pos.x + pos.direction[1] * (i - 1),
                           pos.y + pos.direction[2] * (i - 1)>>] = word[i]
           /\ \E i \in 1..Len(word) :
                  before[<<pos.x + pos.direction[1] * (i - 1),
                           pos.y + pos.direction[2] * (i - 1)>>] = ""

\* the positions of the candidate universe at which `word` is legal on `puzzle`
legal_positions(word, puzzle) ==
    { pos \in Range(all_positions) : legal_at(word, pos, puzzle) }

\* the number of cells along `pos` that already hold the letter of `word`
hits(word, pos, puzzle) ==
    Cardinality({ i \in 1..Len(word) :
                    puzzle[<<pos.x + pos.direction[1] * (i - 1),
                             pos.y + pos.direction[2] * (i - 1)>>] = word[i] })

\* the legal positions that the bias allows at the front of a fresh list
allowed_first(word, puzzle) ==
    LET legal == legal_positions(word, puzzle)
    IN  IF intersect_bias > 0
        THEN { p \in legal :
                 \A q \in legal : hits(word, q, puzzle) <= hits(word, p, puzzle) }
        ELSE IF intersect_bias < 0
        THEN { p \in legal :
                 \A q \in legal : hits(word, p, puzzle) <= hits(word, q, puzzle) }
        ELSE legal

\* C24: when the candidate list of a word is first computed, its first
\* element has the largest intersection count of all legal positions if
\* intersect_bias > 0 and the smallest if intersect_bias < 0, and can be any
\* legal position if intersect_bias = 0; the position tried is that first
\* element.
C24_BiasOrdersFirst ==
    /\ [] ( (pc = "loop" /\ loop_condition
                /\ cur_word(words, index) \notin DOMAIN all_workable_posits) =>
             LET word == cur_word(words, index)
                 fresh == cur_workable_posits(word, all_workable_posits,
                                              all_positions, table, intersect_bias)
             IN  { l[1] : l \in fresh \ { <<>> } } = allowed_first(word, table) )
    /\ [][ (pc = "loop" /\ index' = index + 1
                /\ words[index + 1] \notin DOMAIN all_workable_posits) =>
             LET word == words[index + 1]
                 tried == all_workable_posits'[word][1]
             IN  /\ tried \in allowed_first(word, table)
                 /\ table' = written(word, tried, table) ]_vars

\* a word was placed from a fresh list, under a positive bias, across a
\* letter although a position without any intersection was legal too
C24_Witness ==
    /\ pc = "loop" /\ index >= 2 /\ intersect_bias > 0
    /\ Len(table_history) = index
    /\ LET word == words[index]
           before == table_history[index]
           list == all_workable_posits[word]
       IN  /\ Len(list) = Cardinality(legal_positions(word, before))
           /\ hits(word, list[1], before) > 0
           /\ \E q \in legal_positions(word, before) : hits(word, q, before) = 0

\* the end cell of `word` along `pos` lies on `puzzle`
ends_inside(word, pos, puzzle) ==
    <<pos.x + pos.direction[1] * (Len(word) - 1),
      pos.y + pos.direction[2] * (Len(word) - 1)>> \in DOMAIN puzzle

\* C26: for every word of the run, every candidate position and the current
\* grid, can_place returns (False, 0) when the bounds check fails; otherwise
\* its first component tells whether every cell of the word's cell sequence
\* is empty or holds the word's letter, and its second component is the
\* number of cells that hold the word's letter (empty cells do not count).
C26_CanPlaceResult ==
    (pc \in {"loop", "exited", "finish"}) =>
        \A k \in 1..Len(words) : \A pos \in Range(all_positions) :
            LET word == words[k]
                got == can_place(word, pos, table)
            IN  IF ~bounds_check(pos, Len(word), dim)
                THEN got = <<FALSE, 0>> /\ ~ends_inside(word, pos, table)
                ELSE /\ ends_inside(word, pos, table)
                     /\ got[1] = legal_at(word, pos, table)
                     /\ got[2] = hits(word, pos, table)

\* a grid on which can_place gives each kind of answer for words of the run:
\* out of bounds, blocked by another letter with a count above 0, and legal
\* across a letter
C26_Witness ==
    /\ pc = "loop" /\ index >= 1
    /\ \E k \in 1..Len(words) : \E pos \in Range(all_positions) :
           can_place(words[k], pos, table) = <<FALSE, 1>>
    /\ \E k \in 1..Len(words) : \E pos \in Range(all_positions) :
           can_place(words[k], pos, table) = <<TRUE, 1>>
    /\ \E k \in 1..Len(words) : \E pos \in Range(all_positions) :
           ~bounds_check(pos, Len(words[k]), dim)

\* a word of `length` letters
word_of(length) == [i \in 1..length |-> "A"]

\* C27: on the empty dim x dim grid of a run, every one of the 8 directions
\* and every word length from 1 to dim has a start cell at which bounds_check
\* and can_place succeed; a word of length dim fits along direction (1, 0)
\* from x = 0.
C27_EveryLengthFits ==
    (pc = "loop" /\ table = create_empty_table(dim)) =>
        /\ \A j \in DOMAIN DIRECTIONS : \A length \in 1..dim :
               \E pos \in Range(all_posits(dim, DIRECTIONS)) :
                   /\ pos.direction = DIRECTIONS[j]
                   /\ bounds_check(pos, length, dim)
                   /\ can_place(word_of(length), pos, table)[1]
        /\ \E pos \in Range(all_posits(dim, DIRECTIONS)) :
               /\ pos.x = 0 /\ pos.direction = <<1, 0>>
               /\ bounds_check(pos, dim, dim)
               /\ can_place(word_of(dim), pos, table)[1]

\* the empty grid of a run with all 8 directions and a word as long as dim
C27_Witness ==
    /\ pc = "loop" /\ table = create_empty_table(dim)
    /\ dim >= 2
    /\ directions = DIRECTIONS
    /\ all_positions = all_posits(dim, DIRECTIONS)
    /\ \E k \in 1..Len(words) : Len(words[k]) = dim

\* the control points between two iterations of the loop of line 368
at_boundary == pc \in {"loop", "exited", "finish"}

\* C28: at every iteration boundary the history holds one snapshot per placed
\* word: its length is the cursor, and its k-th snapshot (counted from 0) is
\* the grid that holds exactly words[0..k-1].
C28_HistoryPerPlacedWord ==
    at_boundary =>
        /\ Len(table_history) = index
        /\ \A k \in 1..index : table_history[k] = only_placed(k - 1)

\* two of three words are placed, the second one at another position after
\* a backtrack (its list lost a candidate), on a grid that did not grow
C28_Witness ==
    /\ pc = "loop" /\ index = 2 /\ Len(words) = 3
    /\ dim = get_puzzle_dim(words, size_fac)
    /\ Len(table_history) = 2
    /\ table_history[2] # table_history[1]
    /\ Len(all_workable_posits[words[2]])
           < Cardinality(legal_positions(words[2], table_history[2]))

\* C29: at every iteration boundary the cache has a list for every placed
\* word, may have one for the word under the cursor and has none for a later
\* word; every cached list holds only positions that are legal on the grid
\* the word is (to be) placed on, so no list of an older grid is reused.
C29_CacheFollowsCursor ==
    at_boundary =>
        /\ { words[k] : k \in 1..index } \subseteq DOMAIN all_workable_posits
        /\ DOMAIN all_workable_posits
               \subseteq { words[k] : k \in (1..(index + 1)) \cap DOMAIN words }
        /\ \A k \in 1..Len(words) :
               words[k] \in DOMAIN all_workable_posits =>
                  Range(all_workable_posits[words[k]]) \subseteq
                     legal_positions(words[k], IF k <= index
                                               THEN table_history[k]
                                               ELSE table)

\* after a backtrack past the third word: the second word is under the
\* cursor with a cached list, and the third word has none
C29_Witness ==
    /\ pc = "loop" /\ index = 1 /\ Len(words) = 3
    /\ words[2] \in DOMAIN all_workable_posits
    /\ words[3] \notin DOMAIN all_workable_posits
    /\ progress_calls >= 4

\* C30: the cursor stays within 0 .. len(words) at every iteration boundary
\* and in every progress callback; an iteration moves it by one, or leaves it
\* at 0 when the backtrack took it to -1 and the grid grew; it equals
\* len(words) only when every word is placed.
C30_CursorRange ==
    /\ [] ( at_boundary =>
               /\ index \in 0..Len(words)
               /\ progress_calls > 0 => progress_seen \in 0..Len(words)
               /\ index = Len(words) =>
                      /\ table = only_placed(Len(words))
                      /\ \A k \in 1..Len(words) :
                             reads(words[k], placed_at(k), table, dim) )
    /\ [][ iteration =>
              \/ index' = index + 1
              \/ index' = index - 1
              \/ index = 0 /\ index' = 0 /\ dim' = dim + 1 ]_vars

\* the loop ended with every word placed after the cursor had dropped below 0
\* and the grid had grown
C30_Witness ==
    /\ pc = "exited" /\ ~halted
    /\ index = Len(words) /\ Len(words) >= 2
    /\ dim > get_puzzle_dim(words, size_fac)
    /\ progress_seen = Len(words)

\* C25: bounds_check returns true exactly when both the start cell (x, y)
\* and the end cell (x + dx*(length-1), y + dy*(length-1)) lie within
\* [0, puzz_dim) on both axes, also for a start cell beyond the puzzle.
C25_BoundsCheckStartAndEnd ==
    \A c \in unit_call : \A returned \in unit_value :
        c.op = "bounds_check" =>
            LET xend == c.pos.x + c.pos.direction[1] * (c.length - 1)
                yend == c.pos.y + c.pos.direction[2] * (c.length - 1)
                inside(v) == 0 <= v /\ v < c.puzz_dim
            IN  returned <=> ( /\ inside(c.pos.x) /\ inside(c.pos.y)
                               /\ inside(xend) /\ inside(yend) )

\* C38: p == q is true exactly when p.x = q.x, p.y = q.y and
\* p.direction = q.direction, and is falsy when any of the three differs.
C38_EqualityByValue ==
    \A c \in unit_call : \A returned \in unit_value :
        c.op = "__eq__" =>
            ( truthy(returned) <=> ( /\ c.pos.x = c.other.x
                                     /\ c.pos.y = c.other.y
                                     /\ c.pos.direction = c.other.direction ) )

\* C35: Generator.halted is True whenever no generation is in progress (after
\* construction, after a completed, a cancelled or a failed run), and it is
\* False only inside a run, from line 367 to line 409, with no cancel request
\* made since line 367.
C35_HaltedOutsideTheLoop ==
    /\ pc = "idle" => halted
    /\ ~halted => pc \in {"loop", "exited", "finish"} /\ cancel_at = "none"

\* a completed run has returned its pair and left the flag set
C35_Witness == pc = "idle" /\ result = "pair" /\ halted /\ puzz # NoText

\* C36: every gen_word_search call that gets as far as the reset, whatever the
\* previous call did, starts from an all-empty grid of the newly computed
\* dimension, an empty candidate cache, an empty history, cursor 0 and the
\* candidate positions of that dimension.
C36_RunsStartFresh ==
    [][ (pc = "idle" /\ pc' = "start") =>
            /\ dim' = get_puzzle_dim(words', size_fac')
            /\ DOMAIN table' = Cells(dim')
            /\ \A c \in DOMAIN table' : table'[c] = ""
            /\ all_workable_posits' = EmptyDict
            /\ table_history' = <<>>
            /\ index' = 0
            /\ all_positions' = all_posits(dim', directions') ]_vars

\* a call without a words argument has passed the reset: the words it uses
\* were stored by an earlier call on the same Generator, which returned a pair
\* or None or raised after storing them
C36_Witness ==
    /\ pc = "start"
    /\ arg_words = NoWords
    /\ words # NoWords
    /\ index = 0
    /\ table = create_empty_table(dim)

RECURSIVE placed_upto(_, _, _, _)
\* the empty table of dimension d with ws[1..n] written, each along the first
\* position of its list in dict
placed_upto(ws, dict, n, d) ==
    IF n = 0 THEN create_empty_table(d)
    ELSE written(ws[n], dict[ws[n]][1], placed_upto(ws, dict, n - 1, d))

\* C37: in the legacy engine a backtrack to the previous word leaves in the
\* table the contents it had before that word was placed: the words before it,
\* each where it was placed, and no letter of the undone word.
C37_LegacyBacktrackRestores ==
    [][ (pc = "legacy" /\ index' = index - 1) =>
            table' = placed_upto(words, all_workable_posits', index', dim) ]_vars

\* C31: a cancel requested through the button while the generation thread is
\* alive is never lost: the flag stays set until the run ends, and the run
\* returns None.
C31_CancelNeverLost ==
    [][ (gen_thread = "alive" /\ cancel_at # "none") =>
            /\ halted'
            /\ gen_thread' # "alive" => result' = "None" ]_vars

\* C32: while the generation thread is alive the GUI writes none of words,
\* directions, size_fac and intersect_bias and starts no run; the thread is
\* alive exactly while a call of gen_word_search is in progress, so at most
\* one run uses the Generator at a time.
C32_OneRunAtATime ==
    /\ [](toolkit # "none" => (gen_thread = "alive" <=> pc # "idle"))
    /\ [][ pc # "idle" =>
               /\ UNCHANGED <<words, directions, size_fac, intersect_bias>>
               /\ pc' = "start" => pc = "start" ]_vars

\* the button was clicked while the loop of a run was going: the flag is set
\* and the run is still the one that was started
C32_Witness ==
    /\ gen_thread = "alive"
    /\ pc = "loop"
    /\ cancel_at = "loop"
    /\ halted
    /\ index > 0

\* C33: when gen_word_search returns None in the generation thread,
\* generate_puzzle finishes without raising and the stored puzzle and answer
\* key keep their values.
C33_CancelledRunIsNoError ==
    [][ (gen_thread = "alive" /\ result' = "None") =>
            /\ gen_thread' = "finished"
            /\ UNCHANGED <<gui_puzzle, gui_answer_key>> ]_vars

\* C34: every value of Generator.index that a window reads for its progress
\* bar, in progress_update of Tk or in the slot _progress_update of Qt, is in
\* 0 .. len(words).
C34_ProgressValueInRange ==
    [][ ( \/ toolkit = "tk" /\ progress_calls' = progress_calls + 1
          \/ toolkit = "qt" /\ queued' = queued - 1 ) =>
            progress_seen' \in 0..Len(words') ]_vars
====
